---- MODULE Spec2Model ----
(***************************************************************************)
(* A model of the two asset scripts of the repository:                     *)
(*   scripts/generate-ios-splashes.py  (SplashGenerator)                   *)
(*   scripts/optimize-pngs.py          (PngOptimizer)                      *)
(* The file system is the shared state; every statement of each script's   *)
(* main() that reads or writes it is one step of the script's program      *)
(* counter.  Images are modelled by what the scripts can observe of them:  *)
(* mode, dimensions, a representative colour and alpha of the (uniform)    *)
(* icon, and the box the icon is composited into.                          *)
(***************************************************************************)
EXTENDS Integers, Sequences, FiniteSets, TLC

\* ------------------------------------------------------------------ bounds
\* Number of consecutive SplashGenerator runs over the same file tree.
MaxRuns == 3
\* Strings handed to hex_to_rgb on its own: up to MaxHashes '#' and then
\* up to MaxBodyLen characters of HexAlphabet.
MaxHashes == 2
MaxBodyLen == 6
\* Canvas sides 1..MaxDim are rendered, besides those of SPLASH_SPECS.
MaxDim == 60
\* Multiples of 50 up to 50 * MaxFifty are rendered too: there 22% is whole.
MaxFifty == 60
\* PNG files are 1..MaxSize bytes long.
MaxSize == 2

\* ------------------------------------------------------------ small helpers
Min(a, b) == IF a <= b THEN a ELSE b

Range(s) == {s[j] : j \in 1..Len(s)}

RECURSIVE Pow2(_)
Pow2(n) == IF n = 0 THEN 1 ELSE 2 * Pow2(n - 1)

\* ------------------------------------------------- hex_to_rgb (lines 27-31)
HexDigits == <<"0", "1", "2", "3", "4", "5", "6", "7", "8", "9",
               "A", "B", "C", "D", "E", "F">>
HexDigitsLower == <<"0", "1", "2", "3", "4", "5", "6", "7", "8", "9",
                    "a", "b", "c", "d", "e", "f">>

IsHexDigit(c) == c \in Range(HexDigits) \cup Range(HexDigitsLower)

HexValue(c) ==
    IF c \in Range(HexDigits)
    THEN (CHOOSE j \in 1..16 : HexDigits[j] = c) - 1
    ELSE (CHOOSE j \in 1..16 : HexDigitsLower[j] = c) - 1

Whitespace == {" "}

\* str.lstrip("#"): every leading '#' is removed, not only the first.
RECURSIVE lstrip_hash(_)
lstrip_hash(s) ==
    IF Len(s) > 0 /\ s[1] = "#" THEN lstrip_hash(Tail(s)) ELSE s

\* int(pair, 16) for a two-character slice.  Python's int() strips
\* surrounding whitespace and takes an optional sign before the digits.
ParseError == [ok |-> FALSE]

int16(p) ==
    IF IsHexDigit(p[1]) /\ IsHexDigit(p[2])
    THEN [ok |-> TRUE, val |-> 16 * HexValue(p[1]) + HexValue(p[2])]
    ELSE IF p[1] = "+" /\ IsHexDigit(p[2])
    THEN [ok |-> TRUE, val |-> HexValue(p[2])]
    ELSE IF p[1] = "-" /\ IsHexDigit(p[2])
    THEN [ok |-> TRUE, val |-> 0 - HexValue(p[2])]
    ELSE IF p[1] \in Whitespace /\ IsHexDigit(p[2])
    THEN [ok |-> TRUE, val |-> HexValue(p[2])]
    ELSE IF IsHexDigit(p[1]) /\ p[2] \in Whitespace
    THEN [ok |-> TRUE, val |-> HexValue(p[1])]
    ELSE ParseError

\* The result is [ok |-> TRUE, rgb |-> <<r, g, b>>] or the raised ValueError.
ValueError == [ok |-> FALSE, error |-> "ValueError"]

hex_to_rgb(color) ==
    LET c == lstrip_hash(color)
    IN  IF Len(c) # 6
        THEN ValueError
        ELSE LET r == int16(SubSeq(c, 1, 2))
                 g == int16(SubSeq(c, 3, 4))
                 b == int16(SubSeq(c, 5, 6))
             IN  IF r.ok /\ g.ok /\ b.ok
                 THEN [ok |-> TRUE, rgb |-> <<r.val, g.val, b.val>>]
                 ELSE ValueError

\* The literal passed to hex_to_rgb at line 59.
BG_COLOR == <<"#", "F", "D", "F", "B", "F", "7">>

\* ------------------------------------- int(min(w, h) * 0.22)   (line 65)
\* The product is an IEEE-754 double: the integer times the double nearest
\* to 0.22, rounded to 53 significant bits (ties to even), then truncated
\* by int().  Naturals wider than a machine word are little-endian
\* sequences of 15-bit limbs.
LimbBits == 15
LimbBase == Pow2(LimbBits)

\* 0.22 as a double is 0x1C28F5C28F5C29 * 2^-55.
DOUBLE_0_22 == <<23593, 1310, 9175, 225>>
DOUBLE_0_22_EXP == 55
DoubleBits == 53

RECURSIVE MulLimbs(_, _, _)
MulLimbs(ls, n, carry) ==
    IF ls = <<>>
    THEN IF carry = 0 THEN <<>> ELSE <<carry>>
    ELSE LET t == ls[1] * n + carry
         IN  <<t % LimbBase>> \o MulLimbs(Tail(ls), n, t \div LimbBase)

RECURSIVE AddCarry(_, _)
AddCarry(ls, carry) ==
    IF ls = <<>>
    THEN IF carry = 0 THEN <<>> ELSE <<carry>>
    ELSE LET t == ls[1] + carry
         IN  <<t % LimbBase>> \o AddCarry(Tail(ls), t \div LimbBase)

RECURSIVE BitLen(_)
BitLen(x) == IF x = 0 THEN 0 ELSE 1 + BitLen(x \div 2)

Limb(ls, j) == IF j <= Len(ls) THEN ls[j] ELSE 0

\* Round an exact product to 53 significant bits, ties to even.  The
\* dropped bits always lie in the lowest limb (the integer is below 2^15).
RoundToDouble(ls) ==
    LET d == LimbBits * (Len(ls) - 1) + BitLen(ls[Len(ls)]) - DoubleBits
    IN  IF d <= 0
        THEN ls
        ELSE LET rem  == ls[1] % Pow2(d)
                 half == Pow2(d - 1)
                 odd  == IF d < LimbBits
                         THEN (ls[1] \div Pow2(d)) % 2 = 1
                         ELSE Limb(ls, 2) % 2 = 1
                 up   == rem > half \/ (rem = half /\ odd)
                 low  == ls[1] - rem + (IF up THEN Pow2(d) ELSE 0)
             IN  AddCarry(<<low>> \o Tail(ls), 0)

\* int(x) of the double whose scaled significand is ls: floor(ls / 2^55).
TruncDouble(ls) ==
    LET whole == DOUBLE_0_22_EXP \div LimbBits
        part  == DOUBLE_0_22_EXP % LimbBits
    IN  Limb(ls, whole + 1) \div Pow2(part)
        + Limb(ls, whole + 2) * Pow2(LimbBits - part)

int_times_0_22(n) ==
    IF n = 0 THEN 0
    ELSE TruncDouble(RoundToDouble(MulLimbs(DOUBLE_0_22, n, 0)))

\* ------------------------------------------------------------------ images
\* An image as the scripts see it.  The icon is uniform: rgb and a are the
\* colour and alpha of its pixels; box is the square another image was
\* composited into, with the colour that shows there.
NoBox == [x |-> 0, y |-> 0, side |-> 0, rgb |-> <<0, 0, 0>>]

Img(mode, w, h, rgb, a) ==
    [kind |-> "image", mode |-> mode, w |-> w, h |-> h,
     rgb |-> rgb, a |-> a, box |-> NoBox]

Absent == [kind |-> "absent"]
\* A file that exists and that Image.open cannot decode.
Corrupt == [kind |-> "corrupt"]

Exists(f) == f.kind # "absent"

\* Image.convert("RGBA"): an image without alpha becomes fully opaque.
ConvertRGBA(img) ==
    [img EXCEPT !.mode = "RGBA", !.a = IF img.mode = "RGB" THEN 255 ELSE img.a]

\* Image.convert("RGB"): the alpha channel is dropped, the colours stay.
ConvertRGB(img) == [img EXCEPT !.mode = "RGB", !.a = 255]

\* Image.resize((n, n), LANCZOS): RGBA is resampled with premultiplied
\* alpha, so fully transparent pixels come out as transparent black.
Resize(img, n) ==
    [img EXCEPT !.w = n, !.h = n,
                !.rgb = IF img.a = 0 THEN <<0, 0, 0>> ELSE img.rgb]

\* Image.new("RGBA", (w, h), (*bg, 255))
NewCanvas(w, h, bg) == Img("RGBA", w, h, bg, 255)

\* canvas.alpha_composite(scaled, (x, y)): opaque pixels replace the
\* canvas, transparent ones leave it showing.
AlphaComposite(canvas, scaled, x, y) ==
    [canvas EXCEPT !.box =
        [x |-> x, y |-> y, side |-> scaled.w,
         rgb |-> IF scaled.a = 255 THEN scaled.rgb ELSE canvas.rgb]]

\* ------------------------------------------- SplashGenerator (lines 17-74)
SPLASH_SPECS ==
    << [width |-> 1290, height |-> 2796, filename |-> "1290x2796.png"],
       [width |-> 1179, height |-> 2556, filename |-> "1179x2556.png"],
       [width |-> 1170, height |-> 2532, filename |-> "1170x2532.png"] >>

desired_1024 == <<"icons", "ios", "1024.png">>

icon_candidates ==
    <<desired_1024, <<"icons", "ios", "512.png">>, <<"icons", "ios", "192.png">>>>

out_dir == <<"splash">>

out_path(spec) == out_dir \o <<spec.filename>>

SplashPaths == {out_path(SPLASH_SPECS[j]) : j \in 1..Len(SPLASH_SPECS)}

GenPaths == Range(icon_candidates) \cup SplashPaths

\* next((p for p in icon_candidates if p.exists()), None)
None == <<>>

\* A probe that lets the last existing candidate win.
LastExisting(files, cands) ==
    IF \E j \in 1..Len(cands) : Exists(files[cands[j]])
    THEN cands[CHOOSE j \in 1..Len(cands) :
                   /\ Exists(files[cands[j]])
                   /\ \A m \in (j + 1)..Len(cands) : ~Exists(files[cands[m]])]
    ELSE <<>>

FirstExisting(files, cands) ==
    IF \E j \in 1..Len(cands) : Exists(files[cands[j]])
    THEN cands[CHOOSE j \in 1..Len(cands) :
                   /\ Exists(files[cands[j]])
                   /\ \A m \in 1..(j - 1) : ~Exists(files[cands[m]])]
    ELSE None

\* An icon sized from the width alone.
icon_size_of_width(spec) == int_times_0_22(spec.width)

\* icon_size = int(min(spec.width, spec.height) * 0.22)
icon_size(spec) == int_times_0_22(Min(spec.width, spec.height))

\* x = (spec.width - icon_size) // 2 ; y likewise
offset_x(spec) == (spec.width - icon_size(spec)) \div 2
offset_y(spec) == (spec.height - icon_size(spec)) \div 2

\* Pillow refuses to resize to an empty image.
ResizeFails(n) == n < 1

\* The body of the loop over SPLASH_SPECS: the image saved at out_path.
SplashImage(spec, icon, bg) ==
    LET canvas == NewCanvas(spec.width, spec.height, bg)
        scaled == Resize(icon, icon_size(spec))
    IN  ConvertRGB(AlphaComposite(canvas, scaled, offset_x(spec), offset_y(spec)))

\* The 1024 icon written when it is missing.
Upscaled1024(icon) == ConvertRGB(Resize(icon, 1024))

\* ------------------------------------------------------------------- state
VARIABLES
    pc,             \* SplashGenerator: position in main()
    fs,             \* path -> file contents, for the files main() touches
    out_dir_exists, \* whether the directory splash/ exists
    color,          \* the string handed to hex_to_rgb at line 59
    icon_path,      \* line 43
    icon,           \* line 52
    bg,             \* line 59
    k,              \* index of the SplashSpec the loop is at
    message,        \* what the run reported when it halted
    runs,           \* number of runs started so far
    fs0,            \* history: fs when the current run started
    dir0,           \* history: out_dir_exists when the current run started
    written,        \* history: paths saved by the current run, in order
    n1024,          \* history: saves of desired_1024 over all runs
    prev,           \* history: the previous run's splash images, if it succeeded
    hexIn,          \* hex_to_rgb alone: its argument
    hexOut,         \* hex_to_rgb alone: its result
    laySpec,        \* one SplashSpec rendered alone
    layOut,         \* the image rendered for laySpec
    opc,            \* PngOptimizer: position in main()
    tree,           \* path -> entry, for the paths under TARGET_DIRS
    base,           \* index of the root iter_pngs is at
    yielded,        \* paths rglob has produced so far
    total_before,   \* line 41
    total_after,    \* line 42
    touched,        \* line 43
    report,         \* the summary line printed at lines 53-56
    tree0,          \* history: tree when the run started
    processed,      \* history: files handed to optimize_png, in order
    failedAt        \* history: the file optimize_png raised on

genVars == <<pc, fs, out_dir_exists, color, icon_path, icon, bg, k, message,
             runs, fs0, dir0, written, n1024, prev>>
hexVars == <<hexIn, hexOut>>
layVars == <<laySpec, layOut>>
optVars == <<opc, tree, base, yielded, total_before, total_after, touched,
             report, tree0, processed, failedAt>>
vars == <<genVars, hexVars, layVars, optVars>>

Pending == [kind |-> "pending"]
NoIcon == [kind |-> "none"]
NoMessage == [text |-> "", tried |-> <<>>]
NoPrev == [ok |-> FALSE]

\* Colours that tell the three candidates apart.
CandidateColour(j) == <<10 * j, 20, 30>>
CandidateSide == <<1024, 512, 192>>

\* What a candidate file can hold before the first run.
CandidateFiles(j) ==
    {Absent, Corrupt,
     Img("RGBA", CandidateSide[j], CandidateSide[j], CandidateColour(j), 255),
     Img("RGBA", CandidateSide[j], CandidateSide[j], CandidateColour(j), 0)}

\* A splash file left by something else than this program.
Stale == Img("RGB", 1, 1, <<0, 0, 0>>, 255)

CandidateIndex(p) == CHOOSE j \in 1..Len(icon_candidates) : icon_candidates[j] = p

InitialTrees ==
    {[p \in GenPaths |-> IF p \in SplashPaths THEN s[p] ELSE c[CandidateIndex(p)]] :
        c \in CandidateFiles(1) \X CandidateFiles(2) \X CandidateFiles(3),
        s \in [SplashPaths -> {Absent, Stale}]}

GenIdle ==
    /\ pc = "idle"
    /\ fs = [p \in GenPaths |-> Absent]
    /\ out_dir_exists = FALSE
    /\ color = BG_COLOR
    /\ icon_path = None
    /\ icon = NoIcon
    /\ bg = <<>>
    /\ k = 0
    /\ message = NoMessage
    /\ runs = 1
    /\ fs0 = fs
    /\ dir0 = out_dir_exists
    /\ written = <<>>
    /\ n1024 = 0
    /\ prev = NoPrev

NoReport == [printed |-> FALSE]
NoPath == [dir |-> <<>>, stem |-> "", suffix |-> ""]

OptIdle ==
    /\ opc = "idle"
    /\ tree = <<>>
    /\ base = 0
    /\ yielded = {}
    /\ total_before = 0
    /\ total_after = 0
    /\ touched = 0
    /\ report = NoReport
    /\ tree0 = <<>>
    /\ processed = <<>>
    /\ failedAt = NoPath

HexIdle == hexIn = <<>> /\ hexOut = Pending
LayIdle == laySpec = [width |-> 1, height |-> 1, filename |-> ""] /\ layOut = Pending

InitGen(colors) ==
    /\ pc = "start"
    /\ fs \in InitialTrees
    /\ out_dir_exists \in BOOLEAN
    /\ (~out_dir_exists => \A p \in SplashPaths : ~Exists(fs[p]))
    /\ color \in colors
    /\ icon_path = None
    /\ icon = NoIcon
    /\ bg = <<>>
    /\ k = 0
    /\ message = NoMessage
    /\ runs = 1
    /\ fs0 = fs
    /\ dir0 = out_dir_exists
    /\ written = <<>>
    /\ n1024 = 0
    /\ prev = NoPrev

Init == InitGen({BG_COLOR}) /\ HexIdle /\ LayIdle /\ OptIdle

\* ------------------------------------------------- main()  (lines 34-74)
genFrame == UNCHANGED <<hexVars, layVars, optVars, color, runs, fs0, dir0, prev>>

\* line 43
ResolveIcon ==
    /\ pc = "start"
    /\ icon_path' = FirstExisting(fs, icon_candidates)
    /\ pc' = "mkdir"
    /\ UNCHANGED <<fs, out_dir_exists, icon, bg, k, message, written, n1024>>
    /\ genFrame

\* lines 44-45
MakeOutDir ==
    /\ pc = "mkdir"
    /\ out_dir_exists' = TRUE
    /\ pc' = "check"
    /\ UNCHANGED <<fs, icon_path, icon, bg, k, message, written, n1024>>
    /\ genFrame

\* A SystemExit text that names the first candidate only.
MissingIconMessageFirstOnly ==
    [text |-> "Missing source icon. Tried:", tried |-> <<icon_candidates[1]>>]

\* The text of the SystemExit, lines 48-50.
MissingIconMessage ==
    [text |-> "Missing source icon. Tried:", tried |-> icon_candidates]

\* lines 47-50
CheckIcon ==
    /\ pc = "check"
    /\ IF icon_path = None
       THEN /\ pc' = "missing_input"
            /\ message' = MissingIconMessage
       ELSE /\ pc' = "open"
            /\ UNCHANGED message
    /\ UNCHANGED <<fs, out_dir_exists, icon_path, icon, bg, k, written, n1024>>
    /\ genFrame

\* line 52
OpenIcon ==
    /\ pc = "open"
    /\ IF fs[icon_path] = Corrupt
       THEN /\ pc' = "io_error"
            /\ message' = [text |-> "cannot identify image file",
                           tried |-> <<icon_path>>]
            /\ UNCHANGED icon
       ELSE /\ pc' = "ensure"
            /\ icon' = ConvertRGBA(fs[icon_path])
            /\ UNCHANGED message
    /\ UNCHANGED <<fs, out_dir_exists, icon_path, bg, k, written, n1024>>
    /\ genFrame

\* A step that saves the 1024 icon whether or not it exists.
Ensure1024Always ==
    /\ pc = "ensure"
    /\ fs' = [fs EXCEPT ![desired_1024] = Upscaled1024(icon)]
    /\ written' = Append(written, desired_1024)
    /\ n1024' = n1024 + 1
    /\ pc' = "color"
    /\ UNCHANGED <<out_dir_exists, icon_path, icon, bg, k, message>>
    /\ genFrame

\* lines 54-58
Ensure1024 ==
    /\ pc = "ensure"
    /\ IF ~Exists(fs[desired_1024])
       THEN /\ fs' = [fs EXCEPT ![desired_1024] = Upscaled1024(icon)]
            /\ written' = Append(written, desired_1024)
            /\ n1024' = n1024 + 1
       ELSE UNCHANGED <<fs, written, n1024>>
    /\ pc' = "color"
    /\ UNCHANGED <<out_dir_exists, icon_path, icon, bg, k, message>>
    /\ genFrame

\* line 59
ParseColor ==
    /\ pc = "color"
    /\ LET r == hex_to_rgb(color)
       IN  IF r.ok
           THEN /\ bg' = r.rgb
                /\ k' = 1
                /\ pc' = "splash"
                /\ UNCHANGED message
           ELSE /\ pc' = "invalid_color"
                /\ message' = [text |-> "Expected 6-digit hex color, got:",
                               tried |-> <<lstrip_hash(color)>>]
                /\ UNCHANGED <<bg, k>>
    /\ UNCHANGED <<fs, out_dir_exists, icon_path, icon, written, n1024>>
    /\ genFrame

\* A loop body that leaves an existing splash file alone.
RenderSplashIfAbsent ==
    /\ pc = "splash"
    /\ LET spec == SPLASH_SPECS[k]
       IN  /\ IF Exists(fs[out_path(spec)])
              THEN UNCHANGED <<fs, written>>
              ELSE /\ fs' = [fs EXCEPT ![out_path(spec)] = SplashImage(spec, icon, bg)]
                   /\ written' = Append(written, out_path(spec))
           /\ k' = k + 1
           /\ pc' = IF k = Len(SPLASH_SPECS) THEN "done" ELSE "splash"
    /\ UNCHANGED <<out_dir_exists, icon_path, icon, bg, n1024, message>>
    /\ genFrame

\* lines 61-74, one SplashSpec per step
RenderSplash ==
    /\ pc = "splash"
    /\ LET spec == SPLASH_SPECS[k]
       IN  IF ResizeFails(icon_size(spec))
           THEN /\ pc' = "io_error"
                /\ message' = [text |-> "height and width must be > 0",
                               tried |-> <<>>]
                /\ UNCHANGED <<fs, written, k>>
           ELSE /\ fs' = [fs EXCEPT ![out_path(spec)] = SplashImage(spec, icon, bg)]
                /\ written' = Append(written, out_path(spec))
                /\ k' = k + 1
                /\ pc' = IF k = Len(SPLASH_SPECS) THEN "done" ELSE "splash"
                /\ UNCHANGED message
    /\ UNCHANGED <<out_dir_exists, icon_path, icon, bg, n1024>>
    /\ genFrame

Halted == {"done", "missing_input", "invalid_color", "io_error"}

\* The script is started again on the tree the last run left.
Rerun ==
    /\ pc \in Halted
    /\ runs < MaxRuns
    /\ runs' = runs + 1
    /\ pc' = "start"
    /\ fs0' = fs
    /\ dir0' = out_dir_exists
    /\ prev' = IF pc = "done"
               THEN [ok |-> TRUE,
                     out |-> [p \in SplashPaths |-> fs[p]],
                     had1024 |-> Exists(fs0[desired_1024])]
               ELSE NoPrev
    /\ icon_path' = None
    /\ icon' = NoIcon
    /\ bg' = <<>>
    /\ k' = 0
    /\ message' = NoMessage
    /\ written' = <<>>
    /\ UNCHANGED <<fs, out_dir_exists, color, n1024, hexVars, layVars, optVars>>

Next ==
    \/ ResolveIcon
    \/ MakeOutDir
    \/ CheckIcon
    \/ OpenIcon
    \/ Ensure1024
    \/ ParseColor
    \/ RenderSplash
    \/ Rerun

Spec == Init /\ [][Next]_vars

\* The same program with the literal of line 59 replaced: the built-in
\* colour, a short string and a string with a letter that is no hex digit.
BgColors ==
    {BG_COLOR, <<"a", "b", "c">>, <<"#", "F", "D", "F", "B", "G", "7">>}

InitColor == InitGen(BgColors) /\ HexIdle /\ LayIdle /\ OptIdle

SpecColor == InitColor /\ [][Next]_vars

\* ------------------------------------------------------ hex_to_rgb alone
HexAlphabet == {"#", "F", "7", "-", " ", "g"}

Hashes(n) == [j \in 1..n |-> "#"]

InitHex ==
    /\ \E h \in 0..MaxHashes, n \in 0..MaxBodyLen :
         \E body \in [1..n -> HexAlphabet] : hexIn = Hashes(h) \o body
    /\ hexOut = Pending
    /\ GenIdle /\ LayIdle /\ OptIdle

HexCall ==
    /\ hexOut = Pending
    /\ hexOut' = hex_to_rgb(hexIn)
    /\ UNCHANGED <<hexIn, genVars, layVars, optVars>>

NextHex == HexCall

SpecHex == InitHex /\ [][NextHex]_vars

\* ------------------------------------- one pass of the loop body alone
Dims ==
    (1..MaxDim) \cup {50 * j : j \in 1..MaxFifty}
    \cup {SPLASH_SPECS[j].width : j \in 1..Len(SPLASH_SPECS)}
    \cup {SPLASH_SPECS[j].height : j \in 1..Len(SPLASH_SPECS)}

LayIcon == ConvertRGBA(Img("RGBA", 512, 512, CandidateColour(2), 255))

InitLayout ==
    /\ laySpec \in [width : Dims, height : Dims, filename : {"out.png"}]
    /\ layOut = Pending
    /\ GenIdle /\ HexIdle /\ OptIdle

\* lines 62-73 for laySpec
RenderOne ==
    /\ layOut = Pending
    /\ layOut' = IF ResizeFails(icon_size(laySpec))
                 THEN [kind |-> "error"]
                 ELSE SplashImage(laySpec, LayIcon, hex_to_rgb(BG_COLOR).rgb)
    /\ UNCHANGED <<laySpec, genVars, hexVars, optVars>>

NextLayout == RenderOne

SpecLayout == InitLayout /\ [][NextLayout]_vars

\* ----------------------------------------- PngOptimizer (optimize-pngs.py)
TARGET_DIRS == << <<"icons", "ios">>, <<"splash">> >>

Path(dir, stem, suffix) == [dir |-> dir, stem |-> stem, suffix |-> suffix]

\* The paths that may exist under the roots: a PNG, a PNG in a
\* subdirectory, a file that is no PNG, a directory named like a PNG, and a
\* PNG under the second root.
OptPathSeq ==
    <<Path(<<"icons", "ios">>, "a", ".png"),
      Path(<<"icons", "ios", "sub">>, "b", ".png"),
      Path(<<"icons", "ios">>, "notes", ".txt"),
      Path(<<"icons", "ios">>, "d", ".png"),
      Path(<<"splash">>, "s", ".png")>>

OptPaths == Range(OptPathSeq)

Directory == [kind |-> "dir"]

\* A regular file: px names its pixel content; health says whether Pillow
\* can decode it ("corrupt" cannot) and whether it can be written back
\* ("unwritable" cannot); enc is the encoding its bytes are in.
File(px, size, health, enc) ==
    [kind |-> "file", px |-> px, size |-> size, health |-> health, enc |-> enc]

IsUnder(p, root) ==
    Len(p.dir) >= Len(root) /\ SubSeq(p.dir, 1, Len(root)) = root

\* What each path can be before the run.
EntryChoices(p) ==
    IF p.suffix # ".png"
    THEN {Absent, File(p.stem, 1, "corrupt", "orig")}
    ELSE IF p.stem = "d"
    THEN {Absent, Directory}
    ELSE {Absent} \cup
         {File(p.stem, n, h, "orig") :
             n \in 1..MaxSize, h \in {"ok", "corrupt", "unwritable"}}

PathIndex(p) == CHOOSE j \in 1..Len(OptPathSeq) : OptPathSeq[j] = p

\* Nothing exists below a root that does not exist.
InitialOptTrees ==
    {[roots |-> r,
      files |-> [p \in OptPaths |->
                    IF \E b \in r : IsUnder(p, TARGET_DIRS[b])
                    THEN c[PathIndex(p)]
                    ELSE Absent]] :
        r \in SUBSET (1..Len(TARGET_DIRS)),
        c \in EntryChoices(OptPathSeq[1]) \X EntryChoices(OptPathSeq[2])
              \X EntryChoices(OptPathSeq[3]) \X EntryChoices(OptPathSeq[4])
              \X EntryChoices(OptPathSeq[5])}

InitOpt ==
    /\ tree \in InitialOptTrees
    /\ opc = "scan"
    /\ base = 1
    /\ yielded = {}
    /\ total_before = 0
    /\ total_after = 0
    /\ touched = 0
    /\ report = NoReport
    /\ tree0 = tree
    /\ processed = <<>>
    /\ failedAt = NoPath
    /\ GenIdle /\ HexIdle /\ LayIdle

optFrame == UNCHANGED <<genVars, hexVars, layVars, tree0>>

\* A walk that does not descend: base.glob("*.png").
glob_png(t, b) ==
    {p \in OptPaths :
        /\ p.dir = TARGET_DIRS[b]
        /\ Exists(t.files[p])
        /\ p.suffix = ".png"}

\* base.rglob("*.png"): every existing path below the root whose name
\* matches, whatever kind of entry it is.
rglob_png(t, b) ==
    {p \in OptPaths :
        /\ IsUnder(p, TARGET_DIRS[b])
        /\ Exists(t.files[p])
        /\ p.suffix = ".png"}

is_file(t, p) == t.files[p].kind = "file"

\* A save that removes the file it could not write.
optimize_png_unlink(f) ==
    IF f.health = "corrupt"
    THEN {[raised |-> TRUE, file |-> f]}
    ELSE IF f.health = "unwritable"
    THEN {[raised |-> TRUE, file |-> [kind |-> "absent"]]}
    ELSE {[raised |-> FALSE,
           file |-> [f EXCEPT !.size = n, !.enc = "opt"],
           before |-> f.size, after |-> n] : n \in 1..MaxSize}

\* optimize_png(path), lines 28-37: the outcomes Pillow can produce.  A
\* file that cannot be decoded is left alone; one that cannot be written
\* back is left as it was or cut short.
optimize_png(f) ==
    IF f.health = "corrupt"
    THEN {[raised |-> TRUE, file |-> f]}
    ELSE IF f.health = "unwritable"
    THEN {[raised |-> TRUE, file |-> f],
          [raised |-> TRUE, file |-> [f EXCEPT !.size = 0, !.enc = "partial"]]}
    ELSE {[raised |-> FALSE,
           file |-> [f EXCEPT !.size = n, !.enc = "opt"],
           before |-> f.size, after |-> n] : n \in 1..MaxSize}

\* iter_pngs, lines 20-22: a root that does not exist is passed over.
SkipRoot ==
    /\ opc = "scan"
    /\ base <= Len(TARGET_DIRS)
    /\ base \notin tree.roots
    /\ base' = base + 1
    /\ UNCHANGED <<opc, tree, yielded, total_before, total_after, touched,
                   report, processed, failedAt>>
    /\ optFrame

\* iter_pngs, lines 23-24: a match that is no regular file is not yielded.
SkipNonFile ==
    /\ opc = "scan"
    /\ base <= Len(TARGET_DIRS)
    /\ base \in tree.roots
    /\ \E p \in rglob_png(tree, base) \ yielded :
         /\ ~is_file(tree, p)
         /\ yielded' = yielded \cup {p}
    /\ UNCHANGED <<opc, tree, base, total_before, total_after, touched,
                   report, processed, failedAt>>
    /\ optFrame

\* iter_pngs line 25 and the loop body of main(), lines 45-49.
OptimizeNext ==
    /\ opc = "scan"
    /\ base <= Len(TARGET_DIRS)
    /\ base \in tree.roots
    /\ \E p \in rglob_png(tree, base) \ yielded :
         /\ is_file(tree, p)
         /\ yielded' = yielded \cup {p}
         /\ \E o \in optimize_png(tree.files[p]) :
              /\ tree' = [tree EXCEPT !.files[p] = o.file]
              /\ IF o.raised
                 THEN /\ opc' = "failed"
                      /\ failedAt' = p
                      /\ UNCHANGED <<total_before, total_after, touched, processed>>
                 ELSE /\ total_before' = total_before + o.before
                      /\ total_after' = total_after + o.after
                      /\ touched' = touched + 1
                      /\ processed' = Append(processed, p)
                      /\ UNCHANGED <<opc, failedAt>>
    /\ UNCHANGED <<base, report>>
    /\ optFrame

\* iter_pngs, line 20: the walk of one root is over, on to the next.
NextRoot ==
    /\ opc = "scan"
    /\ base <= Len(TARGET_DIRS)
    /\ base \in tree.roots
    /\ rglob_png(tree, base) \ yielded = {}
    /\ base' = base + 1
    /\ UNCHANGED <<opc, tree, yielded, total_before, total_after, touched,
                   report, processed, failedAt>>
    /\ optFrame

\* lines 51-57.  pct is kept as the exact quotient num / den.
Summary(n, before, after) ==
    LET delta == before - after
    IN  [printed |-> TRUE, touched |-> n,
         total_before |-> before, total_after |-> after, delta |-> delta,
         pct |-> IF before # 0
                 THEN [num |-> delta * 100, den |-> before]
                 ELSE [num |-> 0, den |-> 1]]

Report ==
    /\ opc = "scan"
    /\ base > Len(TARGET_DIRS)
    /\ report' = Summary(touched, total_before, total_after)
    /\ opc' = "reported"
    /\ UNCHANGED <<tree, base, yielded, total_before, total_after, touched,
                   processed, failedAt>>
    /\ optFrame

NextOpt ==
    \/ SkipRoot
    \/ SkipNonFile
    \/ OptimizeNext
    \/ NextRoot
    \/ Report

SpecOpt == InitOpt /\ [][NextOpt]_vars

\* ================================================================== claims
NoCandidate(files) ==
    \A j \in 1..Len(icon_candidates) : ~Exists(files[icon_candidates[j]])

\* The candidate the priority order 1024, 512, 192 designates.
PriorityChoice(files) ==
    IF Exists(files[icon_candidates[1]]) THEN icon_candidates[1]
    ELSE IF Exists(files[icon_candidates[2]]) THEN icon_candidates[2]
    ELSE IF Exists(files[icon_candidates[3]]) THEN icon_candidates[3]
    ELSE None

WrittenPaths == Range(written)

\* C1: when none of the three candidates exists at the start of a run, the
\* run gets no further than the fatal missing-icon halt, the halt names all
\* three candidates, and no file has been created or modified.
C1_MissingInputHalts ==
    NoCandidate(fs0) =>
        /\ pc \in {"start", "mkdir", "check", "missing_input"}
        /\ written = <<>>
        /\ fs = fs0
        /\ (pc = "missing_input" => message.tried = icon_candidates)

C1_Witness ==
    /\ pc = "missing_input"
    /\ NoCandidate(fs0)
    /\ message.tried = icon_candidates

\* C2: a run halted by the missing-icon error has left the file system as
\* it found it, the existence of splash/ included.
C2_MissingInputLeavesTreeAlone ==
    pc = "missing_input" => (fs = fs0 /\ out_dir_exists = dir0)

C4_IconOnceSplashAlways ==
    /\ n1024 <= 1
    /\ (Exists(fs0[desired_1024]) =>
            /\ fs[desired_1024] = fs0[desired_1024]
            /\ desired_1024 \notin WrittenPaths)
    /\ (pc = "done" =>
            \A j \in 1..Len(SPLASH_SPECS) :
                /\ Cardinality({m \in 1..Len(written) :
                                   written[m] = out_path(SPLASH_SPECS[j])}) = 1
                /\ fs[out_path(SPLASH_SPECS[j])] = SplashImage(SPLASH_SPECS[j], icon, bg))

C4_Witness ==
    /\ pc = "done"
    /\ runs = 2
    /\ n1024 = 1
    /\ Exists(fs0[desired_1024])
    /\ \E p \in SplashPaths : fs0[p] # fs[p]

\* C5: the icon a run loads is the first existing candidate in the order
\* 1024, 512, 192, and the 1024 icon and every splash image the run saves
\* are made from that one loaded image.
C5_FirstExistingCandidate ==
    LET chosen == PriorityChoice(fs0)
    IN  /\ (pc \notin {"start"} => icon_path = chosen)
        /\ (pc \in {"ensure", "color", "splash", "done", "invalid_color"} =>
                icon = ConvertRGBA(fs0[chosen]))
        /\ (desired_1024 \in WrittenPaths =>
                fs[desired_1024] = Upscaled1024(ConvertRGBA(fs0[chosen])))
        /\ \A j \in 1..Len(SPLASH_SPECS) :
               out_path(SPLASH_SPECS[j]) \in WrittenPaths =>
                   fs[out_path(SPLASH_SPECS[j])] =
                       SplashImage(SPLASH_SPECS[j], ConvertRGBA(fs0[chosen]), bg)

C5_Witness ==
    /\ pc = "done"
    /\ icon_path = icon_candidates[3]
    /\ Exists(fs0[icon_candidates[3]])
    /\ desired_1024 \in WrittenPaths

\* What the claim C6 takes for a well-formed colour: at most one leading
\* '#', then exactly six hex digits.
StripOneHash(sq) == IF Len(sq) > 0 /\ sq[1] = "#" THEN Tail(sq) ELSE sq

WellFormedColor(sq) ==
    LET c == StripOneHash(sq)
    IN  Len(c) = 6 /\ \A j \in 1..6 : IsHexDigit(c[j])

ColorBytes(sq) ==
    LET c == StripOneHash(sq)
    IN  <<16 * HexValue(c[1]) + HexValue(c[2]),
          16 * HexValue(c[3]) + HexValue(c[4]),
          16 * HexValue(c[5]) + HexValue(c[6])>>

\* C6: hex_to_rgb returns a value exactly for the well-formed colours, the
\* three bytes of the digit pairs, and raises on every other string.
C6_HexToRgbAcceptsExactlyHex ==
    hexOut # Pending =>
        /\ hexOut.ok <=> WellFormedColor(hexIn)
        /\ hexOut.ok => hexOut.rgb = ColorBytes(hexIn)

Abs(n) == IF n < 0 THEN 0 - n ELSE n

\* C7: a rendered splash image has the size of its SplashSpec; the icon is
\* a square of side floor(min(w, h) * 22 / 100) at floor((w - side) / 2),
\* floor((h - side) / 2), inside the canvas, with opposite margins that
\* differ by at most one pixel.
C7_CenteredIconGeometry ==
    layOut.kind = "image" =>
        LET w == laySpec.width
            h == laySpec.height
            b == layOut.box
        IN  /\ layOut.w = w /\ layOut.h = h
            /\ b.side = (Min(w, h) * 22) \div 100
            /\ b.x = (w - b.side) \div 2
            /\ b.y = (h - b.side) \div 2
            /\ 0 <= b.x /\ b.x + b.side <= w
            /\ 0 <= b.y /\ b.y + b.side <= h
            /\ Abs(b.x - (w - b.x - b.side)) <= 1
            /\ Abs(b.y - (h - b.y - b.side)) <= 1

C7_Witness ==
    /\ layOut.kind = "image"
    /\ laySpec.width = 1179 /\ laySpec.height = 2556
    /\ layOut.box.side = 259
    /\ layOut.box.x = 460
    /\ layOut.box.y = 1148

SameSplashAsBefore == \A p \in SplashPaths : fs[p] = prev.out[p]

\* C8 as stated: a run that succeeds after a run that succeeded leaves
\* splash images with the pixels the earlier run left.
C8_RerunSamePixels ==
    (pc = "done" /\ prev.ok) => SameSplashAsBefore

\* C8 as amended: a run that succeeds after a successful run which found
\* the 1024 icon already there leaves splash images with the same pixels.
C8_RerunSamePixelsWhen1024Existed ==
    (pc = "done" /\ prev.ok /\ prev.had1024) => SameSplashAsBefore

C8_Witness ==
    /\ pc = "done"
    /\ prev.ok
    /\ prev.had1024
    /\ n1024 = 1
    /\ SameSplashAsBefore

\* The regular files with a .png suffix below the roots that exist.
ExpectedPngs(t) ==
    {p \in OptPaths :
        /\ t.files[p].kind = "file"
        /\ p.suffix = ".png"
        /\ \E b \in t.roots :
              \E n \in 0..Len(p.dir) : SubSeq(p.dir, 1, n) = TARGET_DIRS[b]}

RECURSIVE SumSizes(_, _)
SumSizes(t, ps) ==
    IF ps = {} THEN 0
    ELSE LET p == CHOOSE q \in ps : TRUE
         IN  t.files[p].size + SumSizes(t, ps \ {p})

\* C9: a run that completes reports as many files as there are regular
\* .png files below the existing roots, each optimised exactly once; the
\* totals are the sums of their sizes before and after; with no file the
\* report is 0 files, 0 bytes, 0.00%; and only a file that cannot be
\* decoded or written makes a run fail, never a missing root.
C9_ReportCountsEveryPngOnce ==
    /\ (opc = "reported" =>
            /\ report.printed
            /\ report.touched = Cardinality(ExpectedPngs(tree0))
            /\ Range(processed) = ExpectedPngs(tree0)
            /\ Len(processed) = Cardinality(ExpectedPngs(tree0))
            /\ report.total_before = SumSizes(tree0, ExpectedPngs(tree0))
            /\ report.total_after = SumSizes(tree, ExpectedPngs(tree0))
            /\ report.delta = report.total_before - report.total_after
            /\ (ExpectedPngs(tree0) = {} =>
                    /\ report.touched = 0
                    /\ report.total_before = 0
                    /\ report.total_after = 0
                    /\ report.pct.num = 0))
    /\ (opc = "failed" =>
            /\ failedAt \in ExpectedPngs(tree0)
            /\ tree0.files[failedAt].health # "ok")

C9_Witness ==
    /\ opc = "reported"
    /\ tree0.roots = {1}
    /\ report.touched = 2
    /\ \E p \in OptPaths : tree0.files[p].kind = "dir"
    /\ \E p \in OptPaths : p.suffix # ".png" /\ Exists(tree0.files[p])
    /\ report.total_before # report.total_after

\* C10: a run in which optimize_png raises stops at that file and prints
\* no summary; the files optimised before it stay re-encoded, every other
\* file but the failing one keeps its bytes, and no path has appeared or
\* gone.
C10_FailFastNoRollback ==
    opc = "failed" =>
        /\ report = NoReport
        /\ ~ENABLED NextOpt
        /\ \A p \in Range(processed) :
               /\ tree.files[p].enc = "opt"
               /\ tree.files[p].px = tree0.files[p].px
        /\ \A p \in OptPaths \ (Range(processed) \cup {failedAt}) :
               tree.files[p] = tree0.files[p]
        /\ \A p \in OptPaths : tree.files[p].kind = tree0.files[p].kind
        /\ tree.roots = tree0.roots

C10_Witness ==
    /\ opc = "failed"
    /\ Len(processed) >= 1
    /\ tree.files[failedAt].enc = "partial"
    /\ \E p \in ExpectedPngs(tree0) \ (Range(processed) \cup {failedAt}) :
           tree.files[p] = tree0.files[p]

====
